---- MODULE Spec2Model ----
(***************************************************************************)
(* PiecewiseJerkSpeedProblem                                               *)
(* (modules/planning/math/piecewise_jerk/piecewise_jerk_speed_problem.cc)  *)
(*                                                                         *)
(* The object's member fields are the record self; the caller's output     *)
(* containers handed to CalculateKernel / CalculateOffset are P_data,      *)
(* P_indices, P_indptr and q.  A failed CHECK_EQ ends the process          *)
(* (pc = "fatal").                                                         *)
(*                                                                         *)
(* A c_float / double is modelled as an exact rational <<num, den>> in     *)
(* lowest terms with den > 0: the model is that of the arithmetic the      *)
(* code writes down, without IEEE-754 rounding.                            *)
(***************************************************************************)
EXTENDS Integers, Sequences, FiniteSets, TLC

VARIABLES
  self,       \* the object's member fields
  pc,         \* "alive", or "fatal" once a CHECK has failed
  P_data, P_indices, P_indptr,   \* the caller's containers for the kernel
  q,          \* the caller's container for the offset
  q_calls,    \* history: CalculateOffset calls that wrote into q
  last_call,  \* history: the latest call and the arguments handed to it
  latest      \* history: per setter, the arguments of its latest call that
              \* returned (Never if none has)

vars ==
  <<self, pc, P_data, P_indices, P_indptr, q, q_calls, last_call, latest>>

-----------------------------------------------------------------------------
(* Bounds of the model.                                                    *)

\* largest num_of_knots the constructor is called with
MaxKnots == 3
\* how many calls may write into one and the same caller-owned container
MaxReuse == 2

-----------------------------------------------------------------------------
(* double arithmetic, as exact rationals                                   *)

Abs(i) == IF i < 0 THEN -i ELSE i

RECURSIVE GCD(_, _)
GCD(a, b) == IF b = 0 THEN a ELSE GCD(b, a % b)

Norm(a, b) ==
  LET g == GCD(Abs(a), Abs(b))
      s == IF b < 0 THEN -1 ELSE 1
  IN  << (s * a) \div g, (s * b) \div g >>

R(i) == << i, 1 >>
Zero == R(0)
Two == R(2)

Add(x, y) == Norm(x[1] * y[2] + y[1] * x[2], x[2] * y[2])
Mul(x, y) == Norm(x[1] * y[1], x[2] * y[2])
Div(x, y) == Norm(x[1] * y[2], x[2] * y[1])
Neg(x) == << -x[1], x[2] >>
Less(x, y) == x[1] * y[2] < y[1] * x[2]
Leq(x, y) == x[1] * y[2] <= y[1] * x[2]

-----------------------------------------------------------------------------
(* The object                                                              *)

ZeroVec(len) == [i \in 1..len |-> Zero]

\* in-class member initialisers
MemberDefaults ==
  [ has_x_ref_ |-> FALSE, weight_x_ref_ |-> Zero, x_ref_ |-> << >>,
    has_dx_ref_ |-> FALSE, weight_dx_ref_ |-> Zero, dx_ref_ |-> Zero,
    has_end_state_ref_ |-> FALSE,
    weight_end_state_ |-> << Zero, Zero, Zero >>,
    end_state_ref_ |-> << Zero, Zero, Zero >> ]

\* PiecewiseJerkProblem(num_of_knots, delta_s, x_init) with the base weights
\* weight_ddx_, weight_dddx_ as the base class holds them, then
\* penalty_dx_.resize(num_of_knots_, 0.0)
Construct(num_of_knots, delta_s, weight_ddx, weight_dddx) ==
  [ num_of_knots_ |-> num_of_knots, delta_s_ |-> delta_s,
    weight_ddx_ |-> weight_ddx, weight_dddx_ |-> weight_dddx,
    penalty_dx_ |-> ZeroVec(num_of_knots),
    has_x_ref_ |-> MemberDefaults.has_x_ref_,
    weight_x_ref_ |-> MemberDefaults.weight_x_ref_,
    x_ref_ |-> MemberDefaults.x_ref_,
    has_dx_ref_ |-> MemberDefaults.has_dx_ref_,
    weight_dx_ref_ |-> MemberDefaults.weight_dx_ref_,
    dx_ref_ |-> MemberDefaults.dx_ref_,
    has_end_state_ref_ |-> MemberDefaults.has_end_state_ref_,
    weight_end_state_ |-> MemberDefaults.weight_end_state_,
    end_state_ref_ |-> MemberDefaults.end_state_ref_ ]

\* the assignments of set_x_ref after its CHECK_EQ
StoreXRef(s, weight_x_ref, x_ref) ==
  [s EXCEPT !.x_ref_ = x_ref, !.weight_x_ref_ = weight_x_ref,
            !.has_x_ref_ = TRUE]

StoreDxRef(s, weight_dx_ref, dx_ref) ==
  [s EXCEPT !.weight_dx_ref_ = weight_dx_ref, !.dx_ref_ = dx_ref,
            !.has_dx_ref_ = TRUE]

StorePenaltyDx(s, penalty_dx) == [s EXCEPT !.penalty_dx_ = penalty_dx]

StoreEndStateRef(s, weight_end_state, end_state_ref) ==
  [s EXCEPT !.weight_end_state_ = weight_end_state,
            !.end_state_ref_ = end_state_ref,
            !.has_end_state_ref_ = TRUE]

Never == << >>
Call(op, args) == [op |-> op, args |-> args]

OutputsUnchanged == UNCHANGED <<P_data, P_indices, P_indptr, q, q_calls>>

\* faulty variant of set_x_ref: the fields are stored before the size is
\* checked
set_x_ref_StoreBeforeCheck(weight_x_ref, x_ref) ==
  /\ pc = "alive"
  /\ last_call' = Call("set_x_ref", << weight_x_ref, x_ref >>)
  /\ self' = StoreXRef(self, weight_x_ref, x_ref)
  /\ IF Len(x_ref) = self.num_of_knots_
       THEN /\ pc' = pc
            /\ latest' = [latest EXCEPT !.set_x_ref = << weight_x_ref, x_ref >>]
       ELSE /\ pc' = "fatal"
            /\ latest' = latest
  /\ OutputsUnchanged

\* CHECK_EQ(x_ref.size(), num_of_knots_) aborts the process
set_x_ref(weight_x_ref, x_ref) ==
  /\ pc = "alive"
  /\ last_call' = Call("set_x_ref", << weight_x_ref, x_ref >>)
  /\ IF Len(x_ref) = self.num_of_knots_
       THEN /\ self' = StoreXRef(self, weight_x_ref, x_ref)
            /\ pc' = pc
            /\ latest' = [latest EXCEPT !.set_x_ref = << weight_x_ref, x_ref >>]
       ELSE /\ pc' = "fatal"
            /\ self' = self
            /\ latest' = latest
  /\ OutputsUnchanged

set_dx_ref(weight_dx_ref, dx_ref) ==
  /\ pc = "alive"
  /\ last_call' = Call("set_dx_ref", << weight_dx_ref, dx_ref >>)
  /\ self' = StoreDxRef(self, weight_dx_ref, dx_ref)
  /\ pc' = pc
  /\ latest' = [latest EXCEPT !.set_dx_ref = << weight_dx_ref, dx_ref >>]
  /\ OutputsUnchanged

\* CHECK_EQ(penalty_dx.size(), num_of_knots_) aborts the process
set_penalty_dx(penalty_dx) ==
  /\ pc = "alive"
  /\ last_call' = Call("set_penalty_dx", << penalty_dx >>)
  /\ IF Len(penalty_dx) = self.num_of_knots_
       THEN /\ self' = StorePenaltyDx(self, penalty_dx)
            /\ pc' = pc
            /\ latest' = [latest EXCEPT !.set_penalty_dx = << penalty_dx >>]
       ELSE /\ pc' = "fatal"
            /\ self' = self
            /\ latest' = latest
  /\ OutputsUnchanged

set_end_state_ref(weight_end_state, end_state_ref) ==
  /\ pc = "alive"
  /\ last_call' = Call("set_end_state_ref", << weight_end_state, end_state_ref >>)
  /\ self' = StoreEndStateRef(self, weight_end_state, end_state_ref)
  /\ pc' = pc
  /\ latest' = [latest EXCEPT
                  !.set_end_state_ref = << weight_end_state, end_state_ref >>]
  /\ OutputsUnchanged

-----------------------------------------------------------------------------
(* CalculateKernel                                                         *)
(* An entry <<c, r, v>> is columns[c].emplace_back(r, v); knots and matrix  *)
(* indices are 0-based as in the code, sequences are 1-based.              *)

n_of(s) == s.num_of_knots_
kNumParam(s) == 3 * n_of(s)
kNumValue(s) == 4 * n_of(s) - 1

delta_s_square(s) == Mul(s.delta_s_, s.delta_s_)

\* x(i)^2 * w_x_ref, i in [0, n-1)
PositionEntries(s) ==
  [k \in 1..(n_of(s) - 1) |-> << k - 1, k - 1, s.weight_x_ref_ >>]

\* x(n-1)^2 * (w_x_ref + w_end_x)
PositionEndEntries(s) ==
  << << n_of(s) - 1, n_of(s) - 1,
        Add(s.weight_x_ref_, s.weight_end_state_[1]) >> >>

\* x(i)'^2 * (w_dx_ref + penalty_dx), i in [0, n-1)
VelocityEntries(s) ==
  [k \in 1..(n_of(s) - 1) |->
     << n_of(s) + k - 1, n_of(s) + k - 1,
        Add(s.weight_dx_ref_, s.penalty_dx_[k]) >>]

\* x(n-1)'^2 * (w_dx_ref + penalty_dx + w_end_dx)
VelocityEndEntries(s) ==
  << << 2 * n_of(s) - 1, 2 * n_of(s) - 1,
        Add(Add(s.weight_dx_ref_, s.penalty_dx_[n_of(s)]),
            s.weight_end_state_[2]) >> >>

\* columns[2n]: weight_ddx_ + weight_dddx_ / delta_s_square
AccelFirstEntries(s) ==
  << << 2 * n_of(s), 2 * n_of(s),
        Add(s.weight_ddx_, Div(s.weight_dddx_, delta_s_square(s))) >> >>

\* faulty variant of AccelInteriorEntries: an interior knot gets the jerk
\* term of one neighbour only
AccelInteriorEntriesOneNeighbour(s) ==
  [k \in 1..(n_of(s) - 2) |->
     << 2 * n_of(s) + k, 2 * n_of(s) + k,
        Add(s.weight_ddx_, Div(s.weight_dddx_, delta_s_square(s))) >>]

\* columns[2n+i], i in [1, n-1): weight_ddx_ + 2.0 * weight_dddx_ / delta_s_square
AccelInteriorEntries(s) ==
  [k \in 1..(n_of(s) - 2) |->
     << 2 * n_of(s) + k, 2 * n_of(s) + k,
        Add(s.weight_ddx_,
            Div(Mul(Two, s.weight_dddx_), delta_s_square(s))) >>]

\* columns[3n-1]: weight_ddx_ + weight_dddx_ / delta_s_square + weight_end_state_[2]
AccelEndEntries(s) ==
  << << 3 * n_of(s) - 1, 3 * n_of(s) - 1,
        Add(Add(s.weight_ddx_, Div(s.weight_dddx_, delta_s_square(s))),
            s.weight_end_state_[3]) >> >>

\* faulty variant of CrossEntries: the cross term with the sign of the
\* squared terms
CrossEntriesPositive(s) ==
  [k \in 1..(n_of(s) - 1) |->
     << 2 * n_of(s) + k - 1, 2 * n_of(s) + k,
        Div(Mul(Two, s.weight_dddx_), delta_s_square(s)) >>]

\* columns[2n+i].emplace_back(2n+i+1, -2.0 * weight_dddx_ / delta_s_square),
\* i in [0, n-1)
CrossEntries(s) ==
  [k \in 1..(n_of(s) - 1) |->
     << 2 * n_of(s) + k - 1, 2 * n_of(s) + k,
        Div(Mul(R(-2), s.weight_dddx_), delta_s_square(s)) >>]

\* faulty variant of KernelEntries: the cross terms are emplaced before the
\* acceleration diagonals
KernelEntriesCrossFirst(s) ==
  PositionEntries(s) \o PositionEndEntries(s) \o VelocityEntries(s)
    \o VelocityEndEntries(s) \o CrossEntries(s) \o AccelFirstEntries(s)
    \o AccelInteriorEntries(s) \o AccelEndEntries(s)

\* every emplace_back of the function, in program order
KernelEntries(s) ==
  PositionEntries(s) \o PositionEndEntries(s) \o VelocityEntries(s)
    \o VelocityEndEntries(s) \o AccelFirstEntries(s)
    \o AccelInteriorEntries(s) \o AccelEndEntries(s) \o CrossEntries(s)

\* ++value_index after every emplace_back
value_index(s) == Len(KernelEntries(s))

RowVal(e) == << e[2], e[3] >>

RECURSIVE PairsOfColumn(_, _)
PairsOfColumn(es, c) ==
  IF es = << >> THEN << >>
  ELSE IF Head(es)[1] = c
         THEN << RowVal(Head(es)) >> \o PairsOfColumn(Tail(es), c)
         ELSE PairsOfColumn(Tail(es), c)

\* the local `columns` when the CHECK_EQ is reached: columns[c] holds its
\* pairs in the order they were emplaced
Columns(s) ==
  LET es == KernelEntries(s)
  IN  [c \in 1..kNumParam(s) |-> PairsOfColumn(es, c - 1)]

RECURSIVE EntriesBefore(_, _)
EntriesBefore(cols, c) ==
  IF c <= 1 THEN 0 ELSE EntriesBefore(cols, c - 1) + Len(cols[c - 1])

RECURSIVE Flatten(_, _)
Flatten(cols, c) ==
  IF c > Len(cols) THEN << >> ELSE cols[c] \o Flatten(cols, c + 1)

\* P_data->push_back(row_data_pair.second * 2.0)
EmitData(cols) ==
  LET ps == Flatten(cols, 1) IN [k \in 1..Len(ps) |-> Mul(ps[k][2], Two)]

\* P_indices->push_back(row_data_pair.first)
EmitIndices(cols) ==
  LET ps == Flatten(cols, 1) IN [k \in 1..Len(ps) |-> ps[k][1]]

\* P_indptr->push_back(ind_p) at the start of every column and once at the end
EmitIndptr(cols) ==
  [c \in 1..(Len(cols) + 1) |-> EntriesBefore(cols, c)]

\* faulty variant of CalculateKernel: the count check is left out
CalculateKernelUnchecked(fresh) ==
  /\ pc = "alive"
  /\ fresh \/ Len(P_indptr) < (MaxReuse - 1) * (kNumParam(self) + 1) + 1
  /\ LET in_data == IF fresh THEN << >> ELSE P_data
         in_indices == IF fresh THEN << >> ELSE P_indices
         in_indptr == IF fresh THEN << >> ELSE P_indptr
         columns == Columns(self)
     IN  /\ last_call' =
              Call("CalculateKernel", << in_data, in_indices, in_indptr >>)
         /\ P_data' = in_data \o EmitData(columns)
         /\ P_indices' = in_indices \o EmitIndices(columns)
         /\ P_indptr' = in_indptr \o EmitIndptr(columns)
         /\ pc' = pc
  /\ UNCHANGED <<self, q, q_calls, latest>>

\* The containers the caller hands in are new ones (fresh) or the ones it
\* already holds.  The count check comes before the first push_back.
CalculateKernel(fresh) ==
  /\ pc = "alive"
  /\ fresh \/ Len(P_indptr) < (MaxReuse - 1) * (kNumParam(self) + 1) + 1
  /\ LET in_data == IF fresh THEN << >> ELSE P_data
         in_indices == IF fresh THEN << >> ELSE P_indices
         in_indptr == IF fresh THEN << >> ELSE P_indptr
         columns == Columns(self)
     IN  /\ last_call' =
              Call("CalculateKernel", << in_data, in_indices, in_indptr >>)
         /\ IF value_index(self) = kNumValue(self)
              THEN /\ P_data' = in_data \o EmitData(columns)
                   /\ P_indices' = in_indices \o EmitIndices(columns)
                   /\ P_indptr' = in_indptr \o EmitIndptr(columns)
                   /\ pc' = pc
              ELSE /\ P_data' = in_data
                   /\ P_indices' = in_indices
                   /\ P_indptr' = in_indptr
                   /\ pc' = "fatal"
  /\ UNCHANGED <<self, q, q_calls, latest>>

-----------------------------------------------------------------------------
(* CalculateOffset                                                         *)

\* q->resize(kNumParam): keeps what is there, value-initialises the rest
Resize(v, len) == [i \in 1..len |-> IF i <= Len(v) THEN v[i] ELSE Zero]

\* q->at(idx) += d, idx 0-based
AddAt(v, idx, d) == [v EXCEPT ![idx + 1] = Add(@, d)]

\* the loop over the knots
KnotTerms(s, v) ==
  [i \in 1..Len(v) |->
     IF i <= n_of(s) /\ s.has_x_ref_
       THEN Add(v[i], Mul(Mul(R(-2), s.weight_x_ref_), s.x_ref_[i]))
     ELSE IF n_of(s) < i /\ i <= 2 * n_of(s) /\ s.has_dx_ref_
       THEN Add(v[i], Mul(Mul(R(-2), s.weight_dx_ref_), s.dx_ref_))
     ELSE v[i]]

\* faulty variant of EndStateTerms: the terms are assigned, not added
EndStateTermsAssigned(s, v) ==
  IF s.has_end_state_ref_
    THEN [v EXCEPT
            ![n_of(s)] =
              Mul(Mul(R(-2), s.weight_end_state_[1]), s.end_state_ref_[1]),
            ![2 * n_of(s)] =
              Mul(Mul(R(-2), s.weight_end_state_[2]), s.end_state_ref_[2]),
            ![3 * n_of(s)] =
              Mul(Mul(R(-2), s.weight_end_state_[3]), s.end_state_ref_[3])]
    ELSE v

\* if (has_end_state_ref_) { three q->at(..) += .. }
EndStateTerms(s, v) ==
  IF s.has_end_state_ref_
    THEN AddAt(AddAt(AddAt(v, n_of(s) - 1,
                 Mul(Mul(R(-2), s.weight_end_state_[1]), s.end_state_ref_[1])),
               2 * n_of(s) - 1,
                 Mul(Mul(R(-2), s.weight_end_state_[2]), s.end_state_ref_[2])),
               3 * n_of(s) - 1,
                 Mul(Mul(R(-2), s.weight_end_state_[3]), s.end_state_ref_[3]))
    ELSE v

OffsetInto(s, v) == EndStateTerms(s, KnotTerms(s, Resize(v, kNumParam(s))))

CalculateOffset(fresh) ==
  /\ pc = "alive"
  /\ fresh \/ q_calls < MaxReuse
  /\ LET in_q == IF fresh THEN << >> ELSE q
     IN  /\ last_call' = Call("CalculateOffset", << in_q >>)
         /\ q' = OffsetInto(self, in_q)
         /\ q_calls' = IF fresh THEN 1 ELSE q_calls + 1
  /\ UNCHANGED <<self, pc, P_data, P_indices, P_indptr, latest>>

-----------------------------------------------------------------------------
(* Arguments the callers are modelled to pass                              *)

Knots == 1..MaxKnots
Half == << 1, 2 >>

\* a vector whose value differs from knot to knot
Ramp(len) == [i \in 1..len |-> R(i)]
\* vector arguments of every length from 0 to MaxKnots + 1
VecArgs == { Ramp(len) : len \in 0..(MaxKnots + 1) }

DeltaVals == { Half, R(2) }
DdxWeights == { Zero, R(1) }
DddxWeights == { R(-1), Zero, R(1) }
RefWeights == { R(-1), R(2) }
EndWeights == { << R(1), R(2), R(3) >>, << Zero, R(1), R(-1) >> }
EndRefs == { << R(1), R(1), R(1) >>, << R(2), Zero, R(-1) >> }
DxRefs == { Half, R(3) }

NeverCalled ==
  [ set_x_ref |-> Never, set_dx_ref |-> Never, set_penalty_dx |-> Never,
    set_end_state_ref |-> Never ]

\* the setter calls that left object s
LatestOf(s) ==
  [ set_x_ref |->
      IF s.has_x_ref_ THEN << s.weight_x_ref_, s.x_ref_ >> ELSE Never,
    set_dx_ref |->
      IF s.has_dx_ref_ THEN << s.weight_dx_ref_, s.dx_ref_ >> ELSE Never,
    set_penalty_dx |->
      IF s.penalty_dx_ = ZeroVec(s.num_of_knots_) THEN Never
      ELSE << s.penalty_dx_ >>,
    set_end_state_ref |->
      IF s.has_end_state_ref_
        THEN << s.weight_end_state_, s.end_state_ref_ >> ELSE Never ]

\* the scenario with concrete numbers: n = 2, delta_s = 1, every weight 1,
\* x_ref = [1, 2], dx_ref = 0.5, no end state
Scenario ==
  StoreDxRef(StoreXRef(Construct(2, R(1), R(1), R(1)), R(1), Ramp(2)),
             R(1), Half)

InitOutputs ==
  /\ pc = "alive"
  /\ P_data = << >> /\ P_indices = << >> /\ P_indptr = << >>
  /\ q = << >> /\ q_calls = 0

-----------------------------------------------------------------------------
(* Spec: an object from its construction on, under any sequence of setter  *)
(* and CalculateOffset calls; the caller hands a new vector to each        *)
(* CalculateOffset call.  CalculateKernel is applied under SpecBuild.      *)

Init ==
  /\ \E num_of_knots \in Knots, delta_s \in { R(1), R(2) } :
       self = Construct(num_of_knots, delta_s, R(1), R(1))
  /\ InitOutputs
  /\ last_call = Call("constructor", << >>)
  /\ latest = NeverCalled

Next ==
  \/ \E w \in { R(1), R(2) }, x_ref \in VecArgs : set_x_ref(w, x_ref)
  \/ \E w \in { R(1) }, dx_ref \in DxRefs : set_dx_ref(w, dx_ref)
  \/ \E penalty_dx \in VecArgs : set_penalty_dx(penalty_dx)
  \/ \E w \in { << R(1), R(2), R(3) >> }, ref \in EndRefs :
       set_end_state_ref(w, ref)
  \/ CalculateOffset(TRUE)

Spec == Init /\ [][Next]_vars

-----------------------------------------------------------------------------
(* SpecBuild: the two Calculate functions applied to a configured object.  *)
(* The initial states are the objects a constructor call followed by at    *)
(* most one successful call of each setter leaves (the setters overwrite   *)
(* disjoint fields, so longer call sequences leave no other objects).      *)

Optionally(s, configured) == { s } \cup configured

Configured ==
  UNION { UNION { UNION { UNION {
    Optionally(s4, { StoreEndStateRef(s4, w, << R(1), R(1), R(1) >>) : w \in EndWeights })
      : s4 \in Optionally(s3, { StorePenaltyDx(s3, Ramp(n_of(s3))) }) }
      : s3 \in Optionally(s2, { StoreDxRef(s2, w, Half) : w \in RefWeights }) }
      : s2 \in Optionally(s1,
          { StoreXRef(s1, w, Ramp(n_of(s1))) : w \in RefWeights }) }
      : s1 \in { Construct(n, d, wa, wj) :
                   n \in Knots, d \in DeltaVals,
                   wa \in DdxWeights, wj \in DddxWeights } }

InitBuild ==
  /\ self \in Configured \cup { Scenario }
  /\ InitOutputs
  /\ last_call = Call("configured", << >>)
  /\ latest = LatestOf(self)

NextBuild ==
  \/ \E fresh \in BOOLEAN : CalculateKernel(fresh)
  \/ \E fresh \in BOOLEAN : CalculateOffset(fresh)

SpecBuild == InitBuild /\ [][NextBuild]_vars

-----------------------------------------------------------------------------
(* Reading the emitted compressed-column triple                            *)

n == self.num_of_knots_

\* CalculateKernel was the latest call, was handed empty containers and
\* returned
KernelReturned ==
  /\ last_call = Call("CalculateKernel", << << >>, << >>, << >> >>)
  /\ pc = "alive"

\* 0-based column of the k-th stored entry, by the column offsets
ColOf(k) ==
  CHOOSE c \in 0..(Len(P_indptr) - 2) :
    P_indptr[c + 1] < k /\ k <= P_indptr[c + 2]

Stored == 1..Len(P_data)
IsDiagonal(k) == P_indices[k] = ColOf(k)

NonNegative(x) == Leq(Zero, x)

NonNegativeWeights ==
  /\ NonNegative(self.weight_x_ref_)
  /\ NonNegative(self.weight_dx_ref_)
  /\ NonNegative(self.weight_ddx_)
  /\ NonNegative(self.weight_dddx_)
  /\ \A k \in 1..3 : NonNegative(self.weight_end_state_[k])
  /\ \A i \in 1..n : NonNegative(self.penalty_dx_[i])

\* weight_dddx / delta_s^2
JerkCoef == Div(self.weight_dddx_, Mul(self.delta_s_, self.delta_s_))

-----------------------------------------------------------------------------
\* C3 (as stated): the stored entries are those of the upper triangle: every
\* stored entry has row <= column, and the cross term of acceleration knots
\* i, i+1 is stored at row 2n+i, column 2n+i+1.
C3_UpperTriangle ==
  (KernelReturned /\ n >= 2) =>
    /\ \A k \in Stored : P_indices[k] <= ColOf(k)
    /\ \A i \in 0..(n - 2) :
         \E k \in Stored :
           P_indices[k] = 2 * n + i /\ ColOf(k) = 2 * n + i + 1

-----------------------------------------------------------------------------
\* the column offsets and row indices for n knots, whatever the weights
PatternIndptr(m) ==
  [c \in 1..(3 * m + 1) |->
     IF c <= 2 * m + 1 THEN c - 1
     ELSE IF c <= 3 * m THEN 2 * m + 2 * (c - 2 * m - 1)
     ELSE 4 * m - 1]

\* C4: for n >= 2 and any weights, CalculateKernel on empty containers passes
\* its count check and emits 4n-1 values and row indices and 3n+1 column
\* offsets that start at 0, never decrease and end at 4n-1; every row index
\* is in [0, 3n); in each column the row indices strictly increase and the
\* diagonal entry comes first; offsets and row indices depend on n alone.
C4_WellFormedCSC ==
  (last_call = Call("CalculateKernel", << << >>, << >>, << >> >>) /\ n >= 2) =>
    /\ pc = "alive"
    /\ Len(P_data) = 4 * n - 1
    /\ Len(P_indices) = 4 * n - 1
    /\ Len(P_indptr) = 3 * n + 1
    /\ P_indptr[1] = 0
    /\ \A c \in 1..(3 * n) : P_indptr[c] <= P_indptr[c + 1]
    /\ P_indptr[3 * n + 1] = 4 * n - 1
    /\ \A k \in 1..(4 * n - 1) : P_indices[k] \in 0..(3 * n - 1)
    /\ \A c \in 1..(3 * n) :
         /\ P_indptr[c] < P_indptr[c + 1]
         /\ P_indices[P_indptr[c] + 1] = c - 1
         /\ \A k \in (P_indptr[c] + 1)..(P_indptr[c + 1] - 1) :
              P_indices[k] < P_indices[k + 1]
    /\ P_indptr = PatternIndptr(n)
    /\ \A k \in 1..(4 * n - 1) :
         P_indices[k] \in { ColOf(k), ColOf(k) + 1 }

\* every weight is zero and the 4n-1 entries are stored all the same
C4_Witness ==
  /\ KernelReturned /\ n >= 3
  /\ Len(P_data) = 4 * n - 1
  /\ \A k \in Stored : P_data[k] = Zero

-----------------------------------------------------------------------------
\* the value stored on the diagonal at 0-based index d
DiagonalValue(d) ==
  P_data[CHOOSE k \in Stored : ColOf(k) = d /\ P_indices[k] = d]

\* the value stored off the diagonal for rows/columns a and b
CrossValue(a, b) ==
  P_data[CHOOSE k \in Stored : { ColOf(k), P_indices[k] } = { a, b }]

Twice(x) == Add(x, x)

\* C5: for n >= 2 every emitted value is twice the coefficient of the
\* formulas for position, velocity, acceleration and cross terms; in the
\* concrete scenario the values are 2,2,2,2,4,-4,4 and the column offsets
\* 0,1,2,3,4,6,7.
C5_DoubledCoefficients ==
  (KernelReturned /\ n >= 2) =>
    /\ \A k \in Stored : IsDiagonal(k) \/ P_indices[k] = ColOf(k) + 1
    /\ \A i \in 0..(n - 2) :
         /\ DiagonalValue(i) = Twice(self.weight_x_ref_)
         /\ DiagonalValue(n + i) =
              Twice(Add(self.weight_dx_ref_, self.penalty_dx_[i + 1]))
         /\ CrossValue(2 * n + i, 2 * n + i + 1) =
              Twice(Neg(Mul(Two, JerkCoef)))
    /\ DiagonalValue(n - 1) =
         Twice(Add(self.weight_x_ref_, self.weight_end_state_[1]))
    /\ DiagonalValue(2 * n - 1) =
         Twice(Add(Add(self.weight_dx_ref_, self.penalty_dx_[n]),
                   self.weight_end_state_[2]))
    /\ DiagonalValue(2 * n) = Twice(Add(self.weight_ddx_, JerkCoef))
    /\ \A i \in 1..(n - 2) :
         DiagonalValue(2 * n + i) =
           Twice(Add(self.weight_ddx_, Mul(Two, JerkCoef)))
    /\ DiagonalValue(3 * n - 1) =
         Twice(Add(Add(self.weight_ddx_, JerkCoef),
                   self.weight_end_state_[3]))
    /\ (self = Scenario) =>
         /\ P_data = << R(2), R(2), R(2), R(2), R(4), R(-4), R(4) >>
         /\ P_indptr = << 0, 1, 2, 3, 4, 6, 7 >>

\* an interior acceleration knot exists, with jerk weight, per-knot penalties
\* and end-state weights all in play
C5_Witness ==
  /\ KernelReturned /\ n >= 3
  /\ self.weight_dddx_ # Zero
  /\ self.delta_s_ # R(1)
  /\ self.penalty_dx_ # ZeroVec(n)
  /\ self.has_end_state_ref_

-----------------------------------------------------------------------------
\* C7 (as stated): for n >= 2, non-negative weights and delta_s > 0, every
\* off-diagonal value is strictly negative and every diagonal value is
\* non-negative.
C7_OffDiagonalNegative ==
  (KernelReturned /\ n >= 2 /\ NonNegativeWeights
     /\ Less(Zero, self.delta_s_)) =>
    \A k \in Stored :
      IF IsDiagonal(k) THEN NonNegative(P_data[k])
      ELSE Less(P_data[k], Zero)

\* C7 (amended): for n >= 2, non-negative weights and delta_s > 0, every
\* diagonal value is non-negative and every off-diagonal value is <= 0; the
\* off-diagonal values are strictly negative exactly when weight_dddx > 0
\* (they are 0 when weight_dddx = 0).
C7_OffDiagonalNonPositive ==
  (KernelReturned /\ n >= 2 /\ NonNegativeWeights
     /\ Less(Zero, self.delta_s_)) =>
    \A k \in Stored :
      IF IsDiagonal(k) THEN NonNegative(P_data[k])
      ELSE /\ Leq(P_data[k], Zero)
           /\ Less(P_data[k], Zero) <=> Less(Zero, self.weight_dddx_)

\* non-negative weights with weight_dddx = 0: the off-diagonal values are 0
C7_Witness ==
  /\ KernelReturned /\ n >= 2 /\ NonNegativeWeights
  /\ self.weight_dddx_ = Zero
  /\ \E k \in Stored : ~IsDiagonal(k) /\ P_data[k] = Zero
  /\ \E k \in Stored : IsDiagonal(k) /\ Less(Zero, P_data[k])

-----------------------------------------------------------------------------
\* C10: with n = 1 CalculateKernel never returns: both acceleration
\* diagonals land in column 2, 4 entries are counted where 4n-1 = 3 are
\* expected, the count check is fatal, and nothing has been written to the
\* three output sequences.
C10_SingleKnotFatal ==
  (n = 1) =>
    /\ Len(Columns(self)[3]) = 2
    /\ value_index(self) = 4 /\ kNumValue(self) = 3
    /\ P_data = << >> /\ P_indices = << >> /\ P_indptr = << >>
    /\ (last_call.op = "CalculateKernel") => pc = "fatal"

C10_Witness ==
  /\ n = 1 /\ last_call.op = "CalculateKernel" /\ pc = "fatal"
  /\ self.weight_dddx_ = Zero /\ self.weight_ddx_ = Zero

-----------------------------------------------------------------------------
(* The objective as a function of a candidate vector x                     *)

RECURSIVE SumTo(_, _)
SumTo(f, k) == IF k = 0 THEN Zero ELSE Add(SumTo(f, k - 1), f[k])

Sq(x) == Mul(x, x)

\* candidate vectors: position x[1..n], velocity x[n+1..2n],
\* acceleration x[2n+1..3n]
XVals == { R(-1), Zero, R(1) }
Candidates == [1..(3 * n) -> XVals]

\* x^T P x for the symmetric matrix whose stored triangle is the triple: a
\* stored off-diagonal entry stands for the two entries (r, c) and (c, r)
QuadraticForm(x) ==
  SumTo([k \in Stored |->
           IF IsDiagonal(k)
             THEN Mul(P_data[k], Sq(x[P_indices[k] + 1]))
             ELSE Mul(Two, Mul(P_data[k],
                    Mul(x[P_indices[k] + 1], x[ColOf(k) + 1])))],
        Len(P_data))

\* the sum of weighted squares
WeightedSquares(x) ==
  LET pos(i) == x[i]
      vel(i) == x[n + i]
      acc(i) == x[2 * n + i]
      jerk(i) == Div(Add(acc(i + 1), Neg(acc(i))), self.delta_s_)
  IN  Add(Add(Add(
        SumTo([i \in 1..n |-> Mul(self.weight_x_ref_, Sq(pos(i)))], n),
        SumTo([i \in 1..n |->
                 Mul(Add(self.weight_dx_ref_, self.penalty_dx_[i]),
                     Sq(vel(i)))], n)),
        Add(SumTo([i \in 1..n |-> Mul(self.weight_ddx_, Sq(acc(i)))], n),
            SumTo([i \in 1..(n - 1) |->
                     Mul(self.weight_dddx_, Sq(jerk(i)))], n - 1))),
        Add(Mul(self.weight_end_state_[1], Sq(pos(n))),
            Add(Mul(self.weight_end_state_[2], Sq(vel(n))),
                Mul(self.weight_end_state_[3], Sq(acc(n))))))

\* C1 (as stated): for n >= 2 and every candidate x, 0.5 * x^T P x equals the
\* sum of weighted squares (tracking, per-knot penalty, acceleration, jerk
\* and end-state terms) exactly.
C1_HalfQuadraticFormIsCost ==
  (KernelReturned /\ n >= 2) =>
    \A x \in Candidates : Mul(Half, QuadraticForm(x)) = WeightedSquares(x)

\* C2 (as stated): for n >= 2, non-negative weights and delta_s > 0 the
\* symmetric matrix P is positive-semidefinite: x^T P x >= 0 for every x.
C2_PositiveSemidefinite ==
  (KernelReturned /\ n >= 2 /\ NonNegativeWeights
     /\ Less(Zero, self.delta_s_)) =>
    \A x \in Candidates : NonNegative(QuadraticForm(x))

-----------------------------------------------------------------------------
(* The linear term, from the setter calls made                             *)

MinusTwice(w, r) == Neg(Mul(Two, Mul(w, r)))

\* the per-knot reference terms at 1-based index j
ReferencePart(j) ==
  IF j <= n
    THEN IF latest.set_x_ref = Never THEN Zero
         ELSE MinusTwice(latest.set_x_ref[1], latest.set_x_ref[2][j])
  ELSE IF j <= 2 * n
    THEN IF latest.set_dx_ref = Never THEN Zero
         ELSE MinusTwice(latest.set_dx_ref[1], latest.set_dx_ref[2])
  ELSE Zero

\* the end-state terms at 1-based index j
EndStatePart(j) ==
  IF latest.set_end_state_ref = Never \/ j \notin { n, 2 * n, 3 * n } THEN Zero
  ELSE MinusTwice(latest.set_end_state_ref[1][j \div n],
                  latest.set_end_state_ref[2][j \div n])

OffsetReturned == last_call = Call("CalculateOffset", << << >> >>)

\* C6: after any successful setter calls (the latest call of each setter
\* winning), CalculateOffset on an empty vector yields q of length 3n with
\* q[i] = -2*weight_x_ref*x_ref[i] if set_x_ref was called, else 0,
\* q[n+i] = -2*weight_dx_ref*dx_ref if set_dx_ref was called, else 0,
\* q[2n+i] = 0, and, if set_end_state_ref was called,
\* -2*weight_end_state[k]*end_state_ref[k] added to q[n-1], q[2n-1], q[3n-1];
\* in the concrete scenario q = [-2, -4, -1, -1, 0, 0].
C6_LinearTerm ==
  OffsetReturned =>
    /\ Len(q) = 3 * n
    /\ \A j \in 1..(3 * n) : q[j] = Add(ReferencePart(j), EndStatePart(j))
    /\ (n = 2 /\ latest = LatestOf(Scenario)) =>
         q = << R(-2), R(-4), R(-1), R(-1), Zero, Zero >>

\* every reference has been set, so the end-state terms land on knot terms
C6_Witness ==
  /\ OffsetReturned /\ n >= 2
  /\ latest.set_x_ref # Never /\ latest.set_dx_ref # Never
  /\ latest.set_end_state_ref # Never
  /\ q[n] # ReferencePart(n) /\ q[n] # EndStatePart(n)

-----------------------------------------------------------------------------
\* the object that construction and the setter calls in l leave
ObjectAfter(l) ==
  LET s0 == Construct(n, self.delta_s_, self.weight_ddx_, self.weight_dddx_)
      s1 == IF l.set_x_ref = Never THEN s0
            ELSE StoreXRef(s0, l.set_x_ref[1], l.set_x_ref[2])
      s2 == IF l.set_dx_ref = Never THEN s1
            ELSE StoreDxRef(s1, l.set_dx_ref[1], l.set_dx_ref[2])
      s3 == IF l.set_penalty_dx = Never THEN s2
            ELSE StorePenaltyDx(s2, l.set_penalty_dx[1])
  IN  IF l.set_end_state_ref = Never THEN s3
      ELSE StoreEndStateRef(s3, l.set_end_state_ref[1], l.set_end_state_ref[2])

\* C8: in every state reachable by setter calls with arguments of any
\* length, len(penalty_dx) = n (all zeros until set_penalty_dx first
\* succeeds) and the position reference is active only with len(x_ref) = n;
\* a set_x_ref or set_penalty_dx call with a vector of another length is
\* fatal and has modified no stored field.
C8_LengthPreconditions ==
  /\ Len(self.penalty_dx_) = n
  /\ (latest.set_penalty_dx = Never) => self.penalty_dx_ = ZeroVec(n)
  /\ self.has_x_ref_ => Len(self.x_ref_) = n
  /\ (last_call.op = "set_x_ref" /\ Len(last_call.args[2]) # n) =>
       pc = "fatal"
  /\ (last_call.op = "set_penalty_dx" /\ Len(last_call.args[1]) # n) =>
       pc = "fatal"
  /\ self = ObjectAfter(latest)

\* set_penalty_dx has failed on an object whose earlier setter calls succeeded
C8_Witness ==
  /\ pc = "fatal"
  /\ last_call.op = "set_penalty_dx" /\ Len(last_call.args[1]) > n
  /\ latest.set_penalty_dx # Never /\ self.has_x_ref_
  /\ self.penalty_dx_ = latest.set_penalty_dx[1]

-----------------------------------------------------------------------------
\* C9 (as stated): CalculateKernel and CalculateOffset modify no
\* configuration field, and what they leave in the output containers depends
\* on the configuration alone: not on earlier calls and not on what the
\* containers held when handed in.
C9_OutputsFromConfigurationAlone ==
  /\ self = ObjectAfter(latest)
  /\ (last_call.op = "CalculateOffset") => q = OffsetInto(self, << >>)
  /\ (last_call.op = "CalculateKernel" /\ pc = "alive") =>
       /\ P_data = EmitData(Columns(self))
       /\ P_indices = EmitIndices(Columns(self))
       /\ P_indptr = EmitIndptr(Columns(self))

====
